---- MODULE Spec2Model ----
(***************************************************************************)
(* A model of the two reactive engines of the repository.                  *)
(*                                                                         *)
(*  - the tracking engine (src/unnamed/part_001): useSignal, useComputed,  *)
(*    useEffect over a dependency tracker, single-shot transactions and a   *)
(*    per-consumer throttled microtask job;                                *)
(*  - the observer engine (src/unnamed/part_000): signal with a Set of     *)
(*    observers and a throttling scheduler.                                *)
(*                                                                         *)
(* One action is one synchronous JavaScript job: a call made by the host   *)
(* program (a signal write, observe, cancel) or one microtask taken from   *)
(* the head of the microtask queue.                                        *)
(***************************************************************************)
EXTENDS Integers, Sequences, FiniteSets, TLC

\* Signal values range over 0..MaxVal.
MaxVal == 2

\* The value-changing writes of one tick are counted up to MaxBurst.
MaxBurst == 3

\* The host program sends a message to a store only while fewer than
\* MaxPending of the store's effects are unresolved.
MaxPending == 2

-----------------------------------------------------------------------------
\* Generic helpers on sequences used as insertion-ordered JavaScript Sets.

Range(seq) == {seq[i] : i \in 1..Len(seq)}

Member(x, seq) == x \in Range(seq)

Count(x, seq) == Cardinality({i \in 1..Len(seq) : seq[i] = x})

\* Set.prototype.add: appended at the end unless already present.
SetAdd(seq, x) == IF Member(x, seq) THEN seq ELSE Append(seq, x)

RECURSIVE SetDelete(_, _)
\* Set.prototype.delete: order of the remaining entries is kept.
SetDelete(seq, x) ==
    IF seq = <<>> THEN <<>>
    ELSE IF Head(seq) = x THEN SetDelete(Tail(seq), x)
    ELSE <<Head(seq)>> \o SetDelete(Tail(seq), x)

-----------------------------------------------------------------------------
\* THE TRACKING ENGINE (src/unnamed/part_001)
\*
\* A run of the model is one host program built on the engine.  Each program
\* creates the signals a and flag (initially 0 and 1) and then, in this order:
\*   "diamond":  b   = useComputed(() => a() * 2)
\*               c   = useComputed(() => a() > 0 ? 1 : 0)
\*               d   = useComputed(() => b() + c())
\*   "branch":   sel = useComputed(() => flag() ? a() : 0)
\*   "effect":   b   = useComputed(() => a() * 2)
\*               useEffect(() => { seen = flag() ? [flag(), a(), b()] : [flag()] })
\*   "thrower":  t   = useComputed(() => { const v = a()
\*                                        if (v === 1) throw new Error()
\*                                        return v })
\*               u   = useComputed(() => t() + 1)
\*   "selfwrite":  useEffect(() => { const v = a()
\*                                   seen = [v]
\*                                   if (v === MaxVal) setA(0) })
\*   "uneven":  ub = useComputed(() => a() + 1)
\*               c1 = useComputed(() => a() + 1)
\*               c2 = useComputed(() => c1() + 1)
\*               ud = useComputed(() => ub() + c2())
\*   "nested":  nothing at first; later, once,
\*               useEffect(() => { inner = useComputed(() => a()) })
\*              (the perform function, outer, reads nothing itself)
\*   "take":  tv = takeValues(a); the host also sends null to a
\*   "trackingStore":  [st, send] = useStore({init, update})
\* The programs "thrower" and "nested" also read nodes outside any tracked
\* function.
\* The programs "observer", "reduction", "echo", "sample" and "observerStore"
\* use the observer engine instead (see below).

Programs == {"diamond", "branch", "effect", "thrower", "selfwrite", "uneven",
             "nested", "take",
             "observer", "reduction", "echo",
             "sample", "trackingStore", "observerStore"}

\* The programs built on a store, one per implementation of useStore.
StorePrograms == {"trackingStore", "observerStore"}

\* st is the state signal of the store of "trackingStore".
Signals == {"a", "flag", "st"}

Computeds == {"b", "c", "d", "sel", "t", "u", "ub", "c1", "c2", "ud", "inner",
              "tv"}

Effects == {"e", "w", "outer"}

Tracked == Computeds \cup Effects

Readable == Signals \cup Computeds

\* The tracked functions a program constructs, in construction order.
Constructed(p) ==
    CASE p = "diamond" -> <<"b", "c", "d">>
      [] p = "branch" -> <<"sel">>
      [] p = "effect" -> <<"b", "e">>
      [] p = "thrower" -> <<"t", "u">>
      [] p = "selfwrite" -> <<"w">>
      [] p = "uneven" -> <<"ub", "c1", "c2", "ud">>
      [] OTHER -> <<>>

\* The signals a program writes to.
Written(p) ==
    CASE p = "diamond" -> {"a"}
      [] p = "branch" -> {"a", "flag"}
      [] p = "effect" -> {"a", "flag"}
      [] p = "thrower" -> {"a"}
      [] p = "selfwrite" -> {"a"}
      [] p = "uneven" -> {"a"}
      [] p = "nested" -> {"a"}
      [] p = "take" -> {"a"}
      [] OTHER -> {}

\* The nodes a program reads outside any tracked function.
TopLevelReads(p) ==
    CASE p = "thrower" -> {"u"}
      [] p = "nested" -> {"a"}
      [] OTHER -> {}

\* The values a signal's setter is called with.
Vals == 0..MaxVal

\* null or undefined as the value of a signal.
NullValue == -1

\* The values program p calls its setters with.
Sent(p) == IF p = "take" THEN Vals \cup {NullValue} ELSE Vals

\* getTracked() of an empty scope stack: scopes.at(-1) is undefined.
NoListener == "undefined"

\* The observer engine's signals: the source sig, the state signal red that
\* reductions creates, the triggers x and y and the downstream signal sum of
\* "sample", the state signal ost of the store of "observerStore", and the
\* signal ech of "echo".
OSignals == {"sig", "red", "x", "y", "sum", "ost", "ech"}

\* The subscriber functions the host program "observer" passes to observe:
\* each records the value it is given.
Recorders == {"o1", "o2"}

\* rcb is the callback reductions passes to value.observe; sx and sy are the
\* callbacks sample passes to x.observe and y.observe; os is the recording
\* subscriber the program "sample" passes to sum.observe; ow and ol are the
\* subscribers the program "echo" passes to ech.observe.
Subscribers == Recorders \cup {"rcb", "sx", "sy", "os", "ow", "ol"}

\* The subscribers that record the value they are called with.
Recording == Recorders \cup {"os", "ow", "ol"}

\* The signal a subscriber function is passed to.
Subject(sub) ==
    CASE sub = "sx" -> "x"
      [] sub = "sy" -> "y"
      [] sub = "os" -> "sum"
      [] sub \in {"ow", "ol"} -> "ech"
      [] OTHER -> "sig"

\* The signals whose setter the host program holds.
Sources(p) ==
    CASE p \in {"observer", "reduction"} -> {"sig"}
      [] p = "sample" -> {"x", "y"}
      [] p = "echo" -> {"ech"}
      [] OTHER -> {}

\* The signals for which the writes of a tick are counted.
Metered == {"sig"}

\* The observer-engine programs for which ticks and flushes are recorded.
Ticked == {"sample"}

\* The signals the host program passes to cancel().
Owners(p) ==
    CASE p = "observer" -> {"sig"}
      [] p = "reduction" -> {"sig", "red"}
      [] p = "sample" -> {"x", "y", "sum"}
      [] OTHER -> {}

\* The cancel handles: the one observe returned for a subscriber is named
\* after the subscriber, "batch" is the one batchCancels returned.
Handles == Subscribers \cup {"batch"}

\* A value that is not a function, passed to setCancel.
NotCallable == "notAFunction"

\* perform = null in createThrottlingScheduler
Null == "null"

\* The latest job returned normally.
NoError == "none"

VARIABLES
    program,      \* which host program is running
    state,        \* useSignal / useComputed: `let state`, per signal and computed
    transaction,  \* transaction(): the Set of listeners of each readable node
    isScheduled,  \* throttled(): `let isScheduled`, per computed and effect
    microtasks,   \* the host's microtask queue (queueMicrotask), head first
    scopes,       \* dependencyTracker(): the stack of current listeners
    seen,         \* what each effect's perform function last observed
    taken,        \* takeValues: `let state`
    isComplete,   \* takeValues: `let isComplete`
    value,        \* signal(): `let value`, per observer-engine signal
    observers,    \* signal(): the Set `observers`
    performThunk, \* createThrottlingScheduler: `let perform`
    isUpdateScheduled, \* createThrottlingScheduler: `let isUpdateScheduled`
    got,          \* the value each subscriber was last called with
    handed,       \* subscribers for which observe returned a cancel handle
    lastReads,    \* history: nodes read in the latest evaluation of each function
    dropped,      \* history: nodes a function once read and then stopped reading
    notes,        \* history: notifications a function got while its job is pending
    cancelled,    \* history: handles invoked since they were returned
    batch,        \* batchCancels: the Set `batch`
    invocations,  \* history: calls of each constituent made by the batch handle
    arg,          \* history: the cancel argument of the latest setCancel call
    calls,        \* history: how often the latest job called each subscriber
    burst,        \* history: value-changing setValue calls since the last dispatch
    lastWrite,    \* history: the argument of the latest value-changing setValue
    cancelInit,   \* reductions: `const cancel` has been initialised
    cancelSlot,   \* object[__cancel__], per signal: a cancel handle or Null
    error,        \* the error the latest job threw, "none" if it returned
    reducedWith,  \* history: <<v>> once step returned Reduced(v), else <<>>
    pending,      \* useStore: the effects awaited by run / runEffect, by value
    updates,      \* history: the messages update was called with in the latest job
    fold,         \* history: update folded over the messages sent so far
    ran,          \* history: functions and subscribers run inside the latest job
    last,         \* history: the latest job
    written,      \* history: signals changed in the current tick
    runs,         \* history: runs of each function in the current flush
    flushing,     \* history: a microtask ran since the current tick began
    mixed,        \* history: a write was made while the flush was under way
    failed        \* history: functions whose latest scheduled run threw

trackingVars == <<state, transaction, isScheduled, scopes, seen, taken,
                  isComplete>>

observerVars == <<value, observers, performThunk, isUpdateScheduled, got,
                  handed, cancelInit, cancelSlot, reducedWith, cancelled,
                  batch, invocations>>

tickVars == <<written, runs, flushing, mixed, failed>>

flushVars == <<calls, burst, lastWrite, arg>>

vars == <<program, state, transaction, isScheduled, microtasks, scopes, seen,
          value, observers, performThunk, isUpdateScheduled, got, handed,
          lastReads, dropped, notes, cancelled, ran, last, written, runs,
          flushing, mixed, calls, burst, lastWrite, cancelInit, cancelSlot,
          error, reducedWith, pending, updates, fold, failed, batch,
          invocations, arg, taken, isComplete>>

\* The tracking engine's state as one record, threaded through a synchronous job.
Machine ==
    [state |-> state, transaction |-> transaction, isScheduled |-> isScheduled,
     microtasks |-> microtasks, scopes |-> scopes, seen |-> seen,
     taken |-> taken, isComplete |-> isComplete,
     lastReads |-> lastReads, dropped |-> dropped, notes |-> notes,
     ran |-> {}, error |-> NoError, pending |-> pending, updates |-> <<>>]

Truthy(v) == v # 0

\* The nodes a tracked function reads, in order, given the stored values st.
Reads(f, st) ==
    CASE f = "b" -> <<"a">>
      [] f = "c" -> <<"a">>
      [] f = "d" -> <<"b", "c">>
      [] f = "sel" -> IF Truthy(st["flag"]) THEN <<"flag", "a">> ELSE <<"flag">>
      [] f = "e" -> IF Truthy(st["flag"]) THEN <<"flag", "a", "b">>
                    ELSE <<"flag">>
      [] f = "t" -> <<"a">>
      [] f = "u" -> <<"t">>
      [] f = "w" -> <<"a">>
      [] f = "ub" -> <<"a">>
      [] f = "c1" -> <<"a">>
      [] f = "c2" -> <<"c1">>
      [] f = "ud" -> <<"ub", "c2">>
      [] f = "inner" -> <<"a">>
      [] f = "outer" -> <<>>

\* The result of a tracked function, given the stored values st.
Value(f, st) ==
    CASE f = "b" -> st["a"] * 2
      [] f = "c" -> IF st["a"] > 0 THEN 1 ELSE 0
      [] f = "d" -> st["b"] + st["c"]
      [] f = "sel" -> IF Truthy(st["flag"]) THEN st["a"] ELSE 0
      [] f = "e" -> IF Truthy(st["flag"]) THEN <<st["flag"], st["a"], st["b"]>>
                    ELSE <<st["flag"]>>
      [] f = "t" -> st["a"]
      [] f = "u" -> st["t"] + 1
      [] f = "w" -> <<st["a"]>>
      [] f = "ub" -> st["a"] + 1
      [] f = "c1" -> st["a"] + 1
      [] f = "c2" -> st["c1"] + 1
      [] f = "ud" -> st["ub"] + st["c2"]
      [] f = "inner" -> st["a"]
      [] f = "outer" -> <<>>

\* The computeds tracked function f creates after its reads and writes.
Creates(f) == IF f = "outer" THEN <<"inner">> ELSE <<>>

\* The writes tracked function f makes after its reads, given the stored
\* values st: pairs of a signal and the value its setter is called with.
Writes(f, st) ==
    IF f = "w" /\ st["a"] = MaxVal THEN <<(<<"a", 0>>)>> ELSE <<>>

\* Whether tracked function f throws, after its reads, given the stored
\* values st.
Throws(f, st) == f = "t" /\ st["a"] = 1

\* dependencyTracker().getTracked
getTracked(m) ==
    IF m.scopes = <<>> THEN NoListener ELSE m.scopes[Len(m.scopes)]

\* transaction().withTransaction: functions are added, deduplicated.
withTransaction(txn, listener) ==
    IF listener = NoListener THEN txn ELSE SetAdd(txn, listener)

\* Mutant of read: the listener at the bottom of the scope stack is
\* registered.
readOutermost(m, n) ==
    [m EXCEPT !.transaction[n] =
        withTransaction(@, IF m.scopes = <<>> THEN NoListener ELSE m.scopes[1])]

\* useSignal.read / useComputed.read: register the current listener.
read(m, n) ==
    [m EXCEPT !.transaction[n] = withTransaction(@, getTracked(m))]

RECURSIVE readAll(_, _)
readAll(m, ns) ==
    IF ns = <<>> THEN m ELSE readAll(read(m, Head(ns)), Tail(ns))

\* useSignal.send, defined below with the rest of useSignal.
RECURSIVE send(_, _, _)

RECURSIVE writeAll(_, _)
\* The calls of signal setters a tracked function makes.
writeAll(m, ws) ==
    IF ws = <<>> THEN m
    ELSE writeAll(send(m, Head(ws)[1], Head(ws)[2]), Tail(ws))

\* Mutant of takeCompute: isComplete is not consulted.
takeComputeAlways(m) ==
    LET next == m.state["a"]
        m1 == read(m, "a")
    IN IF next # NullValue
       THEN [m |-> [m1 EXCEPT !.taken = next], value |-> next, reads |-> {"a"}]
       ELSE [m |-> [m1 EXCEPT !.isComplete = TRUE], value |-> m.taken,
             reads |-> {"a"}]

\* takeValues: the compute function given to useComputed, with the nodes it
\* read.
takeCompute(m) ==
    IF m.isComplete THEN [m |-> m, value |-> m.taken, reads |-> {}]
    ELSE LET next == m.state["a"]
             m1 == read(m, "a")
         IN IF next # NullValue
            THEN [m |-> [m1 EXCEPT !.taken = next], value |-> next,
                  reads |-> {"a"}]
            ELSE [m |-> [m1 EXCEPT !.isComplete = TRUE], value |-> m.taken,
                  reads |-> {"a"}]

\* The body of tracked function f but for the computeds it creates: it reads
\* its nodes, makes its writes unless it throws, and yields a value.
plainBody(m, f) ==
    IF f = "tv"
    THEN LET r == takeCompute(m)
         IN [m |-> [r.m EXCEPT !.ran = @ \cup {f},
                               !.dropped[f] = @ \cup (m.lastReads[f] \ r.reads),
                               !.lastReads[f] = r.reads],
             value |-> r.value]
    ELSE
    LET rs == Reads(f, m.state)
        m1 == readAll(m, rs)
        m2 == [m1 EXCEPT !.ran = @ \cup {f},
                         !.dropped[f] = @ \cup (m.lastReads[f] \ Range(rs)),
                         !.lastReads[f] = Range(rs)]
    IN [m |-> IF Throws(f, m.state) THEN [m2 EXCEPT !.error = "Error"]
              ELSE writeAll(m2, Writes(f, m.state)),
        value |-> Value(f, m.state)]

\* withTracking: scopes.push(onChange)
pushScope(m, onChange) == [m EXCEPT !.scopes = Append(@, onChange)]

\* withTracking: scopes.pop() and the return of perform's value r.  A throw
\* of perform leaves before the pop.
popScope(r) ==
    IF r.m.error # NoError THEN r
    ELSE [m |-> [r.m EXCEPT !.scopes = SubSeq(@, 1, Len(@) - 1)],
          value |-> r.value]

\* useComputed: `let state = withTracking(recompute, compute)`, given the
\* result r of withTracking.
initialState(r, f) ==
    IF r.m.error # NoError THEN r.m
    ELSE [r.m EXCEPT !.state[f] = r.value]

RECURSIVE createAll(_, _)
\* The calls of useComputed a tracked function makes; the computeds it
\* creates create none themselves.
createAll(m, fs) ==
    IF fs = <<>> \/ m.error # NoError THEN m
    ELSE createAll(initialState(popScope(plainBody(pushScope(m, Head(fs)),
                                                   Head(fs))),
                                Head(fs)),
                   Tail(fs))

\* The body of tracked function f: plainBody, then the computeds it creates.
runBody(m, f) ==
    LET r == plainBody(m, f)
    IN IF r.m.error # NoError THEN r
       ELSE [m |-> createAll(r.m, Creates(f)), value |-> r.value]

\* dependencyTracker().withTracking: push, perform, pop.
withTracking(m, onChange, f) == popScope(runBody(pushScope(m, onChange), f))

\* Mutant of schedule: no isScheduled guard, every notification queues a job.
scheduleAlways(m, f) ==
    [m EXCEPT !.notes[f] = @ + 1,
              !.isScheduled[f] = TRUE,
              !.microtasks = Append(@, f)]

\* Mutant of schedule: the function is run at once instead of being queued.
scheduleSync(m, f) ==
    withTracking([m EXCEPT !.notes[f] = @ + 1], f, f).m

\* throttled().schedule: queue perform unless it is already queued.
schedule(m, f) ==
    LET noted == [m EXCEPT !.notes[f] = @ + 1]
    IN IF ~m.isScheduled[f]
       THEN [noted EXCEPT !.isScheduled[f] = TRUE,
                          !.microtasks = Append(@, f)]
       ELSE noted

RECURSIVE callListeners(_, _)
callListeners(m, listeners) ==
    IF listeners = <<>> THEN m
    ELSE callListeners(schedule(m, Head(listeners)), Tail(listeners))

\* Mutant of transact: the listeners are forgotten without being called.
transactForget(m, n) == [m EXCEPT !.transaction[n] = <<>>]

\* transaction().transact: capture the listeners, start a new empty
\* transaction, call each captured listener once.
transact(m, n) ==
    callListeners([m EXCEPT !.transaction[n] = <<>>], m.transaction[n])

\* Mutant of send: no comparison with the stored value.
sendAlways(m, s, v) == transact([m EXCEPT !.state[s] = v], s)

\* useSignal.send
send(m, s, v) ==
    IF m.state[s] # v
    THEN transact([m EXCEPT !.state[s] = v], s)
    ELSE m

\* Mutant of recomputeJob: a changed value is stored but not published.
recomputeNoPublish(m, f) ==
    LET r == withTracking(m, f, f)
    IN [r.m EXCEPT !.state[f] = r.value]

\* Mutant of recomputeJob: compute is run outside any tracking scope.
recomputeUntracked(m, f) ==
    LET r == runBody(m, f)
    IN IF r.m.state[f] # r.value
       THEN transact([r.m EXCEPT !.state[f] = r.value], f)
       ELSE r.m

\* Mutant of recomputeJob: the result is published even when unchanged.
recomputeAlwaysPublish(m, f) ==
    LET r == withTracking(m, f, f)
    IN transact([r.m EXCEPT !.state[f] = r.value], f)

\* Mutant of recomputeJob: a throw of compute is swallowed and the value is
\* stored and published all the same.
recomputeSwallow(m, f) ==
    LET r == withTracking(m, f, f)
    IN transact([r.m EXCEPT !.state[f] = r.value, !.error = NoError], f)

\* The job of a computed: recompute under tracking, publish a changed value.
\* A throw of compute leaves before the comparison.
recomputeJob(m, f) ==
    LET r == withTracking(m, f, f)
    IN IF r.m.error # NoError THEN r.m
       ELSE IF r.m.state[f] # r.value
       THEN transact([r.m EXCEPT !.state[f] = r.value], f)
       ELSE r.m

\* The job of an effect: perform under tracking.
effectJob(m, f) ==
    LET r == withTracking(m, f, f)
    IN IF r.m.error # NoError THEN r.m
       ELSE [r.m EXCEPT !.seen[f] = r.value]

\* throttled().perform: run the job, then allow scheduling again.  A throw
\* of the job leaves before isScheduled is reset.
perform(m, f) ==
    LET done == IF f \in Effects THEN effectJob(m, f) ELSE recomputeJob(m, f)
    IN IF done.error # NoError THEN done
       ELSE [done EXCEPT !.isScheduled[f] = FALSE]

\* useComputed: the first evaluation, under tracking, sets the state.
useComputed(m, f) == initialState(withTracking(m, f, f), f)

\* useEffect: the first run, under tracking.
useEffect(m, f) == effectJob(m, f)

\* Nothing constructed yet except the two signals.
Blank ==
    [state |-> [n \in Readable |-> IF n = "flag" THEN 1 ELSE 0],
     transaction |-> [n \in Readable |-> <<>>],
     isScheduled |-> [f \in Tracked |-> FALSE],
     microtasks |-> <<>>,
     scopes |-> <<>>,
     seen |-> [f \in Effects |-> <<>>],
     taken |-> 0, isComplete |-> FALSE,
     lastReads |-> [f \in Tracked |-> {}],
     dropped |-> [f \in Tracked |-> {}],
     notes |-> [f \in Tracked |-> 0],
     ran |-> {}, error |-> NoError, pending |-> <<>>, updates |-> <<>>]

\* Construct one tracked function.
construct(m, f) == IF f \in Effects THEN useEffect(m, f) ELSE useComputed(m, f)

RECURSIVE constructAll(_, _)
constructAll(m, fs) ==
    IF fs = <<>> THEN m ELSE constructAll(construct(m, Head(fs)), Tail(fs))

\* An effect that resolves to null or undefined.
Nothing == -1

\* The messages the host program sends to its store.
Msgs == 1..MaxVal

\* next(state, effects)
nextOf(st, effects) == [state |-> st, effects |-> effects]

\* The store's init: state 0 and one effect, resolving to message 1.
init == nextOf(0, <<1>>)

\* The store's update: a number is added to the state (modulo MaxVal + 1);
\* message 1 also starts two effects, one resolving to message 2 and one to
\* nothing; anything else is handed to unknown(), which keeps the state.
update(st, msg) ==
    IF msg \in Msgs
    THEN nextOf((st + msg) % (MaxVal + 1), IF msg = 1 THEN <<2, Nothing>> ELSE <<>>)
    ELSE nextOf(st, <<>>)

RECURSIVE foldl(_, _)
\* The state after update has been applied to each message in turn.
foldl(st, msgs) ==
    IF msgs = <<>> THEN st ELSE foldl(update(st, Head(msgs)).state, Tail(msgs))

\* Mutant of trackingStoreSend: update is applied to the initial state.
trackingStoreSendStale(m, msg) ==
    LET t == update(init.state, msg)
    IN [send(read(m, "st"), "st", t.state) EXCEPT !.updates = Append(@, msg),
                                                 !.pending = @ \o t.effects]

\* useStore (tracking engine): send.  runEffects awaits each effect.
trackingStoreSend(m, msg) ==
    LET m1 == read(m, "st")
        t == update(m1.state["st"], msg)
    IN [send(m1, "st", t.state) EXCEPT !.updates = Append(@, msg),
                                       !.pending = @ \o t.effects]

\* seq without its i-th element.
Without(seq, i) == SubSeq(seq, 1, i - 1) \o SubSeq(seq, i + 1, Len(seq))

\* useStore (tracking engine): runEffect, from the point where the i-th
\* awaited effect has resolved.
runEffect(m, i) ==
    LET msg == m.pending[i]
        m1 == [m EXCEPT !.pending = Without(@, i)]
    IN IF msg # Nothing THEN trackingStoreSend(m1, msg) ELSE m1

\* useStore (tracking engine): the state signal holds init().state and the
\* effects of init() are run.
trackingUseStore(m) ==
    [m EXCEPT !.state["st"] = init.state, !.pending = @ \o init.effects]

\* takeValues(a): the signal is read once, outside the computed, and the
\* computed is created.
takeValues(m) ==
    useComputed([read(m, "a") EXCEPT !.taken = m.state["a"],
                                     !.isComplete = FALSE], "tv")

\* The engine after program p constructed its graph.
Built(p) ==
    IF p = "trackingStore" THEN trackingUseStore(Blank)
    ELSE IF p = "take" THEN takeValues(Blank)
    ELSE constructAll(Blank, Constructed(p))


-----------------------------------------------------------------------------
\* THE OBSERVER ENGINE (src/unnamed/part_000)
\*
\* The program "observer" creates [sig, setSig] = signal(0) and then calls
\* setSig, sig.observe(o1), sig.observe(o2), the returned cancel handles,
\* setCancel(sig, ...) and cancel(sig) in any order.
\* The program "reduction" creates [sig, setSig] = signal(0) and calls setSig,
\* red = reductions(step, sig, 0) and cancel(red) or cancel(sig).
\* The program "sample" creates the signals x and y (both 0) and
\* sum = sample([x, y], () => x() + y()), calls sum.observe(os), and then
\* calls the two setters and cancel on the three signals.
\* The program "echo" creates the signal ech (0) and calls
\* ech.observe(ow) and ech.observe(ol), where
\* ow = v => { got = v; if (v === MaxVal) setEch(0) } and ol records the
\* value it is given; then it calls the setter of ech.
\* The program "observerStore" creates [ost, send] = useStore({init, update})
\* with the init and update of "trackingStore".

\* The observer engine's state as one record.
OMachine ==
    [value |-> value, observers |-> observers, performThunk |-> performThunk,
     isUpdateScheduled |-> isUpdateScheduled, microtasks |-> microtasks,
     got |-> got, handed |-> handed, ran |-> {},
     calls |-> [sub \in Subscribers |-> 0],
     cancelInit |-> cancelInit, cancelSlot |-> cancelSlot,
     error |-> NoError, reducedWith |-> reducedWith,
     pending |-> pending, updates |-> <<>>,
     cancelled |-> cancelled, batch |-> batch, invocations |-> invocations,
     arg |-> Null]

\* Mutant of throttle: no isUpdateScheduled guard, every call queues a
\* performUpdate.
throttleAlways(o, s, thunk) ==
    [o EXCEPT !.performThunk[s] = thunk,
              !.isUpdateScheduled[s] = TRUE,
              !.microtasks = Append(@, s)]

\* createThrottlingScheduler: the returned function.  Last thunk wins; one
\* performUpdate is queued per interval.
throttle(o, s, thunk) ==
    LET o1 == [o EXCEPT !.performThunk[s] = thunk]
    IN IF ~o.isUpdateScheduled[s]
       THEN [o1 EXCEPT !.isUpdateScheduled[s] = TRUE,
                       !.microtasks = Append(@, s)]
       ELSE o1

\* signal.setValue
setValue(o, s, next) ==
    IF o.value[s] # next
    THEN throttle([o EXCEPT !.value[s] = next], s, "dispatch")
    ELSE o

\* Mutant of cancelObserve: the observer is left in the Set.
cancelNothing(o, s, sub) == o

\* Mutant of cancelObserve: a handle called again adds the observer back.
cancelToggle(o, s, sub) ==
    [o EXCEPT !.observers[s] = IF Member(sub, @) THEN SetDelete(@, sub)
                                ELSE Append(@, sub)]

\* The cancel handle observe returns: () => observers.delete(observer)
cancelObserve(o, s, sub) ==
    [o EXCEPT !.observers[s] = SetDelete(@, sub)]

\* A call of the cancel handle observe returned for sub.
invokeObserveHandle(o, sub) ==
    [cancelObserve(o, Subject(sub), sub) EXCEPT !.cancelled = @ \cup {sub}]

RECURSIVE newSet(_)
\* new Set(array): the elements in order, without duplicates.
newSet(seq) ==
    IF seq = <<>> THEN <<>>
    ELSE SetAdd(newSet(SubSeq(seq, 1, Len(seq) - 1)), seq[Len(seq)])

\* batchCancels(cancels)
batchCancels(o, cancels) == [o EXCEPT !.batch = newSet(cancels)]

RECURSIVE runCancels(_, _)
\* for (const cancel of batch) cancel()
runCancels(o, cancels) ==
    IF cancels = <<>> THEN o
    ELSE runCancels([invokeObserveHandle(o, Head(cancels))
                         EXCEPT !.invocations[Head(cancels)] = @ + 1],
                    Tail(cancels))

\* Mutant of batchHandle: the Set is not cleared after the cancels ran.
batchNoClear(o) ==
    [runCancels(o, o.batch) EXCEPT !.cancelled = @ \cup {"batch"}]

\* The cancel handle batchCancels returns: run every cancel of the Set and
\* clear it.
batchHandle(o) ==
    [runCancels(o, o.batch) EXCEPT !.batch = <<>>,
                                   !.cancelled = @ \cup {"batch"}]

\* A call of a cancel handle.
invokeHandle(o, h) ==
    IF h = "batch" THEN batchHandle(o) ELSE invokeObserveHandle(o, h)

\* The stepping function of the program "reduction":
\*   (state, value) => value === MaxVal ? new Reduced(value) : value
\* forwards the source until it emits MaxVal, which is the final value.
step(st, v) == [reduced |-> v = MaxVal, value |-> v]

\* reductions: the callback given to value.observe.  `cancel` is a const of
\* the enclosing call, in its temporal dead zone until observe has returned.
reducer(o, v) ==
    LET next == step(o.value["red"], v)
        o1 == [o EXCEPT !.got["rcb"] = v, !.ran = @ \cup {"rcb"},
                        !.calls["rcb"] = @ + 1]
    IN IF next.reduced
       THEN LET o2 == [o1 EXCEPT !.reducedWith = <<next.value>>]
            IN IF ~o2.cancelInit
               THEN [o2 EXCEPT !.error = "ReferenceError"]
               ELSE setValue(invokeObserveHandle(o2, "rcb"), "red", next.value)
       ELSE setValue(o1, "red", next.value)

\* The resample function of the program "sample": () => x() + y()
resample(o) == o.value["x"] + o.value["y"]

\* sample: the callback given to each trigger's observe; it takes no
\* argument.
sampler(o, sub) ==
    setValue([o EXCEPT !.ran = @ \cup {sub}, !.calls[sub] = @ + 1],
             "sum", resample(o))

\* The subscriber ow of the program "echo": it records the value and, given
\* MaxVal, calls the setter of the signal it observes with 0.
writer(o, v) ==
    LET o1 == [o EXCEPT !.got["ow"] = v, !.ran = @ \cup {"ow"},
                        !.calls["ow"] = @ + 1]
    IN IF v = MaxVal THEN setValue(o1, "ech", 0) ELSE o1

\* A call of a subscriber: the reductions callback, a sample callback, or a
\* subscriber of the host program, which records the value it is called
\* with.
callSubscriber(o, sub, v) ==
    IF sub = "rcb" THEN reducer(o, v)
    ELSE IF sub \in {"sx", "sy"} THEN sampler(o, sub)
    ELSE IF sub = "ow" THEN writer(o, v)
    ELSE [o EXCEPT !.got[sub] = v, !.ran = @ \cup {sub}, !.calls[sub] = @ + 1]

RECURSIVE callObservers(_, _, _)
\* for (let observer of observers) observer(value): an entry deleted before
\* it is reached is skipped, a throw ends the loop.
callObservers(o, s, subs) ==
    IF subs = <<>> \/ o.error # NoError THEN o
    ELSE IF ~Member(Head(subs), o.observers[s]) THEN callObservers(o, s, Tail(subs))
    ELSE callObservers(callSubscriber(o, Head(subs), o.value[s]), s, Tail(subs))

\* signal.dispatch: every observer of the Set is called with the value.
dispatch(o, s) == callObservers(o, s, o.observers[s])

\* createThrottlingScheduler.performUpdate: isUpdateScheduled is reset after
\* perform() returned.
performUpdate(o, s) ==
    LET o1 == IF o.performThunk[s] # Null THEN dispatch(o, s) ELSE o
    IN IF o1.error # NoError THEN o1
       ELSE [o1 EXCEPT !.isUpdateScheduled[s] = FALSE]

\* signal.observe: call the observer with the value, add it to the Set,
\* return the cancel handle.
observe(o, s, sub) ==
    LET o1 == callSubscriber(o, sub, o.value[s])
    IN IF o1.error # NoError THEN o1
       ELSE [o1 EXCEPT !.observers[s] = SetAdd(@, sub),
                       !.handed = @ \cup {sub},
                       !.cancelled = @ \ {sub}]

\* Mutant of setCancel: no check that cancel is a function.
setCancelUnchecked(o, owner, c) ==
    [o EXCEPT !.arg = c, !.cancelSlot[owner] = c]

\* setCancel(object, cancel)
setCancel(o, owner, c) ==
    IF c = NotCallable
    THEN [o EXCEPT !.arg = c, !.error = "TypeError"]
    ELSE [o EXCEPT !.arg = c, !.cancelSlot[owner] = c]

\* cancel(cancellable): call object[__cancel__] if it is a function.
cancel(o, owner) ==
    IF o.cancelSlot[owner] \in Handles
    THEN invokeHandle(o, o.cancelSlot[owner])
    ELSE o

RECURSIVE observeAll(_, _)
\* triggers.map(upstream => upstream.observe(callback))
observeAll(o, subs) ==
    IF subs = <<>> \/ o.error # NoError THEN o
    ELSE observeAll(observe(o, Subject(Head(subs)), Head(subs)), Tail(subs))

\* sample([x, y], resample): a new signal sum holding resample(), a callback
\* observing each trigger, the batched cancel handle associated with sum.
sample(o) ==
    LET o1 == [o EXCEPT !.value["sum"] = resample(o)]
        o2 == observeAll(o1, <<"sx", "sy">>)
    IN IF o2.error # NoError THEN o2
       ELSE setCancel(batchCancels(o2, <<"sx", "sy">>), "sum", "batch")

\* reductions(step, sig, 0): a new state signal red, the callback observing
\* sig, `cancel` initialised with the handle, and the handle associated with
\* red.
reductions(o) ==
    LET o1 == [o EXCEPT !.value["red"] = 0, !.reducedWith = <<>>]
        o2 == observe(o1, Subject("rcb"), "rcb")
    IN IF o2.error # NoError THEN o2
       ELSE setCancel([o2 EXCEPT !.cancelInit = TRUE], "red", "rcb")

\* No subscriber has been called yet.
NoValue == -1

OBlank ==
    [value |-> [s \in OSignals |-> 0],
     observers |-> [s \in OSignals |-> <<>>],
     performThunk |-> [s \in OSignals |-> Null],
     isUpdateScheduled |-> [s \in OSignals |-> FALSE],
     got |-> [sub \in Subscribers |-> NoValue],
     handed |-> {},
     cancelInit |-> FALSE,
     cancelSlot |-> [s \in OSignals |-> Null],
     reducedWith |-> <<>>,
     pending |-> <<>>,
     updates |-> <<>>,
     ran |-> {},
     calls |-> [sub \in Subscribers |-> 0],
     microtasks |-> <<>>,
     error |-> NoError,
     cancelled |-> {},
     batch |-> <<>>,
     invocations |-> [sub \in Subscribers |-> 0],
     arg |-> Null]

\* useStore (observer engine): send.  run awaits each effect.
observerStoreSend(o, msg) ==
    LET t == update(o.value["ost"], msg)
    IN [setValue(o, "ost", t.state) EXCEPT !.updates = Append(@, msg),
                                           !.pending = @ \o t.effects]

\* useStore (observer engine): run, from the point where the i-th awaited
\* effect has resolved: async effect => send(await effect)
run(o, i) ==
    observerStoreSend([o EXCEPT !.pending = Without(@, i)], o.pending[i])

\* useStore (observer engine): the state signal holds init().state; the
\* effects of init() are destructured and not used.
observerUseStore(o) == [o EXCEPT !.value["ost"] = init.state]

\* The observer engine after program p was set up.
OBuilt(p) ==
    CASE p = "observerStore" -> observerUseStore(OBlank)
      [] p = "sample" -> observe(sample(OBlank), "sum", "os")
      [] p = "echo" -> observe(observe(OBlank, "ech", "ow"), "ech", "ol")
      [] OTHER -> OBlank

-----------------------------------------------------------------------------
\* THE HOST: initial state and jobs

NoRuns == [f \in Tracked \cup Subscribers |-> 0]

Job(kind, node, same, count) ==
    [op |-> kind, node |-> node, same |-> same, burst |-> count]

Commit(m) ==
    /\ state' = m.state
    /\ transaction' = m.transaction
    /\ isScheduled' = m.isScheduled
    /\ microtasks' = m.microtasks
    /\ scopes' = m.scopes
    /\ seen' = m.seen
    /\ taken' = m.taken
    /\ isComplete' = m.isComplete
    /\ lastReads' = m.lastReads
    /\ dropped' = m.dropped
    /\ notes' = m.notes
    /\ ran' = m.ran
    /\ error' = m.error
    /\ pending' = m.pending
    /\ updates' = m.updates
    /\ fold' = foldl(fold, m.updates)
    /\ UNCHANGED <<program, observerVars, flushVars>>

OCommit(o) ==
    /\ value' = o.value
    /\ observers' = o.observers
    /\ performThunk' = o.performThunk
    /\ isUpdateScheduled' = o.isUpdateScheduled
    /\ microtasks' = o.microtasks
    /\ got' = o.got
    /\ handed' = o.handed
    /\ ran' = o.ran
    /\ calls' = o.calls
    /\ cancelInit' = o.cancelInit
    /\ cancelSlot' = o.cancelSlot
    /\ error' = o.error
    /\ reducedWith' = o.reducedWith
    /\ pending' = o.pending
    /\ updates' = o.updates
    /\ fold' = foldl(fold, o.updates)
    /\ cancelled' = o.cancelled
    /\ batch' = o.batch
    /\ invocations' = o.invocations
    /\ arg' = o.arg
    /\ UNCHANGED <<program, trackingVars, lastReads, dropped, notes, failed>>

Init ==
    /\ program \in Programs
    /\ \E m \in {Built(program)} : \E o \in {OBuilt(program)} :
        /\ state = m.state
        /\ transaction = m.transaction
        /\ isScheduled = m.isScheduled
        /\ microtasks = m.microtasks \o o.microtasks
        /\ scopes = m.scopes
        /\ seen = m.seen
        /\ taken = m.taken
        /\ isComplete = m.isComplete
        /\ lastReads = m.lastReads
        /\ dropped = m.dropped
        /\ notes = m.notes
        /\ value = o.value
        /\ observers = o.observers
        /\ performThunk = o.performThunk
        /\ isUpdateScheduled = o.isUpdateScheduled
        /\ got = o.got
        /\ handed = o.handed
        /\ cancelled = o.cancelled
        /\ batch = o.batch
        /\ invocations = o.invocations
        /\ arg = Null
        /\ calls = [sub \in Subscribers |-> 0]
        /\ burst = [s \in OSignals |-> 0]
        /\ lastWrite = o.value
        /\ cancelInit = o.cancelInit
        /\ cancelSlot = o.cancelSlot
        /\ error = NoError
        /\ reducedWith = o.reducedWith
        /\ pending = m.pending \o o.pending
        /\ updates = <<>>
        /\ fold = init.state
        /\ ran = {}
        /\ last = Job("init", "none", FALSE, 0)
        /\ written = {}
        /\ runs = NoRuns
        /\ flushing = FALSE
        /\ mixed = FALSE
        /\ failed = {}

\* The host program calls the setter of a tracking-engine signal.
Send ==
    \E s \in Written(program) : \E v \in Sent(program) :
        LET m == send(Machine, s, v)
            fresh == microtasks = <<>> /\ flushing
            nowMixed == ~fresh /\ (mixed \/ flushing)
            before == IF fresh \/ nowMixed THEN {} ELSE written
        IN /\ Commit(m)
           /\ last' = Job("send", s, state[s] = v, 0)
           /\ mixed' = nowMixed
           /\ flushing' = IF fresh THEN FALSE ELSE flushing
           /\ written' = IF nowMixed THEN {}
                         ELSE IF state[s] # v THEN before \cup {s} ELSE before
           /\ runs' = IF fresh \/ nowMixed THEN NoRuns ELSE runs
           /\ UNCHANGED failed

\* The host runs the microtask at the head of the queue: a throttled job of
\* the tracking engine.
RunMicrotask ==
    /\ microtasks # <<>>
    /\ Head(microtasks) \in Tracked
    /\ LET f == Head(microtasks)
           m == perform([Machine EXCEPT !.microtasks = Tail(@),
                                        !.notes[f] = 0], f)
       IN /\ Commit(m)
          /\ last' = Job("perform", f,
                         f \in Computeds /\ m.state[f] = state[f], notes[f])
          /\ flushing' = TRUE
          /\ runs' = IF mixed THEN NoRuns ELSE [runs EXCEPT ![f] = @ + 1]
          /\ failed' = IF m.error # NoError THEN failed \cup {f} ELSE failed \ {f}
          /\ UNCHANGED <<written, mixed>>

\* Bookkeeping of a host write to observer-engine signal s: a write made
\* after a flush has completed begins a new tick, a write made while a flush
\* is under way makes the tick a mixed one.
TickWrite(s, changed) ==
    LET fresh == microtasks = <<>> /\ flushing
        nowMixed == ~fresh /\ (mixed \/ flushing)
        before == IF fresh \/ nowMixed THEN {} ELSE written
    IN IF program \notin Ticked
       THEN UNCHANGED <<written, runs, flushing, mixed>>
       ELSE /\ mixed' = nowMixed
            /\ flushing' = IF fresh THEN FALSE ELSE flushing
            /\ written' = IF nowMixed THEN {}
                          ELSE IF changed THEN before \cup {s} ELSE before
            /\ runs' = IF fresh \/ nowMixed THEN NoRuns ELSE runs

\* Bookkeeping of a performUpdate: the calls of each subscriber are added to
\* its runs of the current flush.
TickFlush ==
    IF program \notin Ticked
    THEN UNCHANGED <<written, runs, flushing, mixed>>
    ELSE /\ flushing' = TRUE
         /\ runs' = IF mixed THEN NoRuns
                    ELSE [n \in DOMAIN runs |->
                             IF n \in Subscribers THEN runs[n] + calls'[n]
                             ELSE runs[n]]
         /\ UNCHANGED <<written, mixed>>

\* The host program calls the setter of the observer-engine signal.
SetValue ==
    \E s \in Sources(program) : \E v \in Vals :
        /\ OCommit(setValue(OMachine, s, v))
        /\ last' = Job("setValue", s, value[s] = v, 0)
        /\ burst' = IF value[s] = v \/ burst[s] = MaxBurst \/ s \notin Metered
                    THEN burst
                    ELSE [burst EXCEPT ![s] = @ + 1]
        /\ lastWrite' = IF value[s] = v \/ s \notin Metered THEN lastWrite
                        ELSE [lastWrite EXCEPT ![s] = v]
        /\ TickWrite(s, value[s] # v)

\* The host program calls sig.observe(sub) and keeps the cancel handle.
Observe ==
    /\ program = "observer"
    /\ \E s \in Sources(program) : \E sub \in Recorders :
        /\ OCommit(observe(OMachine, s, sub))
        /\ last' = Job("observe", sub, FALSE, 0)
        /\ UNCHANGED <<burst, lastWrite, written, runs, flushing, mixed>>

\* The host program calls a cancel handle it holds (any number of times).
Cancel ==
    /\ program = "observer"
    /\ \E s \in Sources(program) : \E sub \in handed :
        /\ s = Subject(sub)
        /\ OCommit(invokeHandle(OMachine, sub))
        /\ last' = Job("cancel", sub, ~Member(sub, observers[s]), 0)
        /\ UNCHANGED <<burst, lastWrite, written, runs, flushing, mixed>>

\* The host runs the microtask at the head of the queue: a performUpdate of
\* the observer engine.
PerformUpdate ==
    /\ microtasks # <<>>
    /\ Head(microtasks) \in OSignals
    /\ LET s == Head(microtasks)
       IN /\ OCommit(performUpdate([OMachine EXCEPT !.microtasks = Tail(@)], s))
          /\ last' = Job("performUpdate", s, FALSE, burst[s])
          /\ burst' = [burst EXCEPT ![s] = 0]
          /\ TickFlush
          /\ UNCHANGED lastWrite

\* The host program "nested" creates its effect, once.
Mount ==
    /\ program = "nested"
    /\ lastReads["inner"] = {}
    /\ Commit(useEffect(Machine, "outer"))
    /\ last' = Job("useEffect", "outer", FALSE, 0)
    /\ UNCHANGED <<written, runs, flushing, mixed, failed>>

\* The host program reads a node outside any tracked function.
TopLevelRead ==
    \E n \in TopLevelReads(program) :
        /\ Commit(read(Machine, n))
        /\ last' = Job("read", n, FALSE, 0)
        /\ UNCHANGED <<written, runs, flushing, mixed, failed>>

\* The host program "reduction" calls reductions(step, sig, 0); a call that
\* threw returned no signal and may be made again.
Reduce ==
    /\ program = "reduction"
    /\ ~cancelInit
    /\ OCommit(reductions(OMachine))
    /\ last' = Job("reductions", "red", FALSE, 0)
    /\ UNCHANGED <<burst, lastWrite, written, runs, flushing, mixed>>

\* The host program "trackingStore" calls the store's send.
TrackingStoreSend ==
    /\ program = "trackingStore"
    /\ Len(pending) < MaxPending
    /\ \E msg \in Msgs :
        /\ Commit(trackingStoreSend(Machine, msg))
        /\ last' = Job("storeSend", "st", FALSE, msg)
        /\ UNCHANGED tickVars

\* One of the effects awaited by the store of "trackingStore" resolves and
\* runEffect continues.
TrackingEffectResolves ==
    /\ program = "trackingStore"
    /\ \E i \in 1..Len(pending) :
        /\ Commit(runEffect(Machine, i))
        /\ last' = Job("resolve", "st", pending[i] = Nothing, 0)
        /\ UNCHANGED tickVars

\* The host program "observerStore" calls the store's send.
ObserverStoreSend ==
    /\ program = "observerStore"
    /\ Len(pending) < MaxPending
    /\ \E msg \in Msgs :
        /\ OCommit(observerStoreSend(OMachine, msg))
        /\ last' = Job("storeSend", "ost", FALSE, msg)
        /\ UNCHANGED <<burst, lastWrite, written, runs, flushing, mixed>>

\* One of the effects awaited by the store of "observerStore" resolves and
\* run continues.
ObserverEffectResolves ==
    /\ program = "observerStore"
    /\ \E i \in 1..Len(pending) :
        /\ OCommit(run(OMachine, i))
        /\ last' = Job("resolve", "ost", pending[i] = Nothing, 0)
        /\ UNCHANGED <<burst, lastWrite, written, runs, flushing, mixed>>

\* The host program "observer" calls setCancel(sig, c), with a cancel handle
\* it holds or with something that is not a function.
SetCancel ==
    /\ program = "observer"
    /\ \E owner \in Owners(program) : \E c \in handed \cup {NotCallable} :
        /\ OCommit(setCancel(OMachine, owner, c))
        /\ last' = Job("setCancel", owner, c = NotCallable, 0)
        /\ UNCHANGED <<burst, lastWrite, written, runs, flushing, mixed>>

\* The host program calls cancel(owner) on one of its signals.
CancelOwner ==
    \E owner \in Owners(program) :
        /\ OCommit(cancel(OMachine, owner))
        /\ last' = Job("cancelOwner", owner, cancelSlot[owner] \in cancelled, 0)
        /\ UNCHANGED <<burst, lastWrite, written, runs, flushing, mixed>>

Next ==
    \/ Send
    \/ RunMicrotask
    \/ Mount
    \/ TopLevelRead
    \/ SetValue
    \/ Observe
    \/ Cancel
    \/ PerformUpdate
    \/ Reduce
    \/ TrackingStoreSend
    \/ TrackingEffectResolves
    \/ ObserverStoreSend
    \/ ObserverEffectResolves
    \/ SetCancel
    \/ CancelOwner

Spec == Init /\ [][Next]_vars

-----------------------------------------------------------------------------
\* PROPERTIES

\* The tracked functions the running program constructed.
Live == Range(Constructed(program))

\* The values the computeds hold once each is evaluated, in dependency
\* order, from the current values of the signals.
Settled(st) ==
    LET s1 == [st EXCEPT !["b"] = Value("b", st),
                         !["c"] = Value("c", st),
                         !["sel"] = Value("sel", st),
                         !["ub"] = Value("ub", st),
                         !["c1"] = Value("c1", st)]
        s2 == [s1 EXCEPT !["c2"] = Value("c2", s1)]
    IN [s2 EXCEPT !["d"] = Value("d", s2),
                  !["ud"] = Value("ud", s2)]

\* C1: in the tracking engine, once the microtask queue has drained, every
\* Computed's stored value equals its compute function evaluated from the
\* current values of the signals (a written to v: b reads 2v after the flush).
C1_SettledAfterDrain ==
    microtasks = <<>> =>
        \A f \in Live \cap Computeds : state[f] = Settled(state)[f]

\* C1 witness: the queue has drained after a changed to MaxVal, and b and d
\* hold the values computed from it.
C1_Witness ==
    /\ program = "diamond"
    /\ microtasks = <<>>
    /\ last.op = "perform"
    /\ state["a"] = MaxVal
    /\ state["b"] = 2 * MaxVal
    /\ state["d"] = 2 * MaxVal + 1

\* The value of signal s that effect f observed in its latest run.
Observed(f, s) ==
    IF f = "w" \/ s = "flag" THEN seen[f][1] ELSE seen[f][2]

\* C2 (as claimed): after writes to one signal s within one tick, an Effect
\* that read s in its last run executes at most once in the following flush,
\* and that run observes the last written value.
C2_EffectOncePerFlush ==
    \A f \in Live \cap Effects : \A s \in Signals :
        (~mixed /\ written = {s} /\ s \in lastReads[f]) =>
            /\ runs[f] <= 1
            /\ runs[f] = 1 => Observed(f, s) = state[s]

\* C3 (as claimed): the nodes holding a tracked function's listener are among
\* the nodes it read in its most recent evaluation, so a write to a node it
\* no longer reads does not schedule it.
C3_NoStaleListener ==
    \A f \in Live : \A n \in Readable :
        Member(f, transaction[n]) => n \in lastReads[f]

\* C9 (as claimed): in every reachable state every Computed's stored value
\* equals compute() evaluated against the current values of the nodes read
\* in its most recent evaluation.
C9_NeverStale ==
    \A f \in Live \cap Computeds : state[f] = Value(f, state)

\* C9 (amended): whenever a Computed's throttled recompute is not scheduled,
\* its stored value equals compute() evaluated against the values currently
\* stored by the signals and Computeds it reads.
C9_FreshUnlessScheduled ==
    \A f \in Live \cap Computeds :
        ~isScheduled[f] => state[f] = Value(f, state)

\* C9 witness: b was recomputed after a changed and nothing is pending for it.
C9_Witness ==
    /\ program = "diamond"
    /\ last.op = "perform"
    /\ last.node = "b"
    /\ ~last.same
    /\ ~isScheduled["b"]
    /\ state["a"] = MaxVal
    /\ state["b"] = 2 * MaxVal
\* C4: once a tracked function that had stopped reading signal X reads X
\* again, every value-changing write to X puts its job on the microtask
\* queue (or finds it already there), so it is recomputed when the tick
\* flushes.
C4_ReReadResumes ==
    [][\A f \in Live : \A n \in Signals :
          (/\ n \in dropped[f]
           /\ n \in lastReads[f]
           /\ last'.op = "send"
           /\ last'.node = n
           /\ ~last'.same) => Member(f, microtasks')]_vars

\* C4 witness: sel had dropped a, read it again, and was then recomputed to
\* a's new value in the flush of a tick that wrote only a.
C4_Witness ==
    /\ program = "branch"
    /\ "a" \in dropped["sel"]
    /\ "a" \in lastReads["sel"]
    /\ last.op = "perform"
    /\ last.node = "sel"
    /\ ~last.same
    /\ written = {"a"}
    /\ ~mixed
    /\ runs["sel"] = 1
    /\ state["sel"] = state["a"]

\* The result of the latest run of tracked function f.
Result(f) == IF f \in Effects THEN seen[f] ELSE state[f]

\* C5: when two or more dependencies notify a tracked function before its
\* pending job has run, exactly one job is pending for it; that job answers
\* all the notifications with one run, which uses the values its
\* dependencies hold at that moment.
C5_DiamondCoalesced ==
    [][\A f \in Live :
          notes[f] >= 2 =>
              /\ Count(f, microtasks) = 1
              /\ IF last'.op = "perform" /\ last'.node = f
                 THEN /\ last'.burst = notes[f]
                      /\ Count(f, microtasks') = 0
                      /\ ~isScheduled'[f]
                      /\ notes'[f] = 0
                      /\ Result(f)' = Value(f, state')
                 ELSE Count(f, microtasks') = 1]_vars

\* C5 witness: one write to a made b and c both notify d; d ran once in the
\* flush, answering both, and holds the value of the settled graph.
C5_Witness ==
    /\ program = "diamond"
    /\ last.op = "perform"
    /\ last.node = "d"
    /\ last.burst = 2
    /\ ~mixed
    /\ Cardinality(written) = 1
    /\ runs["d"] = 1
    /\ microtasks = <<>>
    /\ state["d"] = Settled(state)["d"]
    /\ state["d"] > 0

\* C6: no compute function, perform function or observer runs inside a
\* signal write, in either engine.
C6_WriteRunsNothing ==
    last.op \in {"send", "setValue"} => ran = {}

\* C6 witness: a write changed a signal with registered listeners; their jobs
\* are queued and none has run.
C6_Witness ==
    /\ last.op = "send"
    /\ ~last.same
    /\ microtasks # <<>>
    /\ \A i \in 1..Len(microtasks) : isScheduled[microtasks[i]]
    /\ ran = {}

\* C7: a write of the value a signal already holds changes nothing, in either
\* engine: stored values, listeners or observers, scheduler state and the
\* microtask queue are unchanged and nothing is run.
C7_SameValueWriteIsNoOp ==
    [][/\ (last'.op = "send" /\ last'.same) =>
              (UNCHANGED <<trackingVars, microtasks>> /\ ran' = {})
       /\ (last'.op = "setValue" /\ last'.same) =>
              (UNCHANGED <<observerVars, microtasks>> /\ ran' = {})]_vars

\* C7 witness: a was written with the value it held while e was registered
\* on it; e is still registered and nothing is queued.
C7_Witness ==
    /\ program = "effect"
    /\ last.op = "send"
    /\ last.node = "a"
    /\ last.same
    /\ state["a"] = MaxVal
    /\ Member("e", transaction["a"])
    /\ microtasks = <<>>

\* C8: when a Computed's recompute yields the value it already stores, no
\* downstream job is scheduled or run and its listeners stay registered.
C8_ChangeSuppression ==
    [][\A f \in Live \cap Computeds :
          (last'.op = "perform" /\ last'.node = f /\ state'[f] = state[f]) =>
              /\ transaction'[f] = transaction[f]
              /\ microtasks' = Tail(microtasks)
              /\ ran' = {f}
              /\ \A g \in Tracked \ {f} :
                    isScheduled'[g] = isScheduled[g] /\ notes'[g] = notes[g]]_vars

\* C8 witness: c was recomputed to the value it held; d is still registered
\* on c and has not been scheduled.
C8_Witness ==
    /\ program = "diamond"
    /\ last.op = "perform"
    /\ last.node = "c"
    /\ last.same
    /\ Member("d", transaction["c"])
    /\ ~isScheduled["d"]
    /\ microtasks = <<>>

\* C10: observe calls the subscriber at once with the current value and
\* registers it; it stays registered until its cancel handle is called; after
\* that the signal never calls it again, not even from a dispatch that was
\* already queued.  (The callback of reductions calls its own handle from
\* inside a call; it is the subject of C12.)
C10_ObserveAndCancel ==
    \A sub \in Subscribers \ {"rcb"} :
        /\ (last.op = "observe" /\ last.node = sub) =>
               (sub \in ran /\ got[sub] = value[Subject(sub)])
        /\ (sub \in handed /\ sub \notin cancelled) =>
               Member(sub, observers[Subject(sub)])
        /\ sub \in cancelled =>
               (sub \notin ran /\ ~Member(sub, observers[Subject(sub)]))

\* C10 witness: o1 was cancelled while a dispatch was queued; the dispatch
\* then ran, called o2 with the new value and did not call o1.
C10_Witness ==
    /\ "o1" \in cancelled
    /\ last.op = "performUpdate"
    /\ ran = {"o2"}
    /\ got["o2"] = value["sig"]
    /\ got["o1"] # value["sig"]

\* C11: however many value-changing setValue calls a tick holds, one
\* performUpdate is queued for the signal, and when it runs every observer
\* registered at that moment is called exactly once, with the value of the
\* last write of the tick; nobody else is called and nothing stays queued.
C11_OneDispatchPerTick ==
    [][\A s \in Metered :
          /\ burst'[s] >= 1 => Count(s, microtasks') = 1
          /\ (last'.op = "performUpdate" /\ last'.node = s /\ burst[s] >= 1) =>
                /\ Count(s, microtasks') = 0
                /\ \A sub \in Subscribers :
                      IF Member(sub, observers[s])
                      THEN calls'[sub] = 1 /\ got'[sub] = lastWrite[s]
                      ELSE calls'[sub] = 0]_vars

\* A flush that answers at least two writes, with both observers registered.
C11_Witness ==
    /\ last.op = "performUpdate"
    /\ last.burst >= 2
    /\ Range(observers["sig"]) = Recorders
    /\ \A sub \in Recorders : calls[sub] = 1 /\ got[sub] = lastWrite["sig"]

\* C12: whenever step returns Reduced(v), on the emission delivered inside
\* observe at subscription time as well as on a later one, the job ends
\* without error, the callback is no longer an observer of the source and
\* the derived signal holds v; from then on no emission calls step or
\* changes the derived value.
C12_EarlyTermination ==
    [][/\ (reducedWith = <<>> /\ reducedWith' # <<>>) =>
            /\ error' = NoError
            /\ ~Member("rcb", observers'["sig"])
            /\ value'["red"] = reducedWith'[1]
       /\ (reducedWith # <<>> /\ last'.op # "reductions") =>
            /\ calls'["rcb"] = 0
            /\ value'["red"] = value["red"]]_vars

\* The value read from the store's state signal.
StoreState == IF program = "trackingStore" THEN state["st"] ELSE value["ost"]

\* C13: in both store implementations, as soon as send(msg) has returned the
\* state signal reads update(previous state, msg).state, so the state is
\* always the left fold of update over the messages sent so far, starting
\* from init().state.
C13_StoreRoundTrip ==
    program \in StorePrograms => StoreState = fold

\* Two messages sent one after the other: the second send reads their sum.
C13_Witness ==
    /\ program = "trackingStore"
    /\ last.op = "storeSend"
    /\ last.burst = 1
    /\ updates = <<1>>
    /\ StoreState = 2

\* C14: in both store implementations an effect that resolves to a message
\* causes exactly one call of update, with that message, and an effect that
\* resolves to nothing causes no send and no call of update.
C14_EffectMessages ==
    last.op = "resolve" => Len(updates) = (IF last.same THEN 0 ELSE 1)

\* C15: in both store implementations the constructed store holds
\* init().state and awaits every effect of init().effects.
C15_InitEffectsRun ==
    (program \in StorePrograms /\ last.op = "init") =>
        /\ StoreState = init.state
        /\ pending = init.effects

\* C16: when compute throws during a scheduled recompute of a Computed, the
\* error leaves the microtask, the stored values stay what they were (the
\* Computed keeps its last good value), the Computed's listeners are not
\* called and nothing is queued for them.
C16_ThrowKeepsLastGood ==
    [][\A f \in Computeds :
          (last'.op = "perform" /\ last'.node = f /\ Throws(f, state)) =>
              /\ error' = "Error"
              /\ state' = state
              /\ transaction'[f] = transaction[f]
              /\ microtasks' = Tail(microtasks)
              /\ ran' = {f}]_vars

\* The recompute of t threw while u was listening to t: t and u hold the
\* values of the last good evaluation and nothing is queued.
C16_Witness ==
    /\ program = "thrower"
    /\ last.op = "perform"
    /\ last.node = "t"
    /\ error = "Error"
    /\ state["a"] = 1
    /\ state["t"] = MaxVal
    /\ state["u"] = MaxVal + 1
    /\ Member("u", transaction["t"])
    /\ microtasks = <<>>

\* C17: once a scheduled run of a tracked function has thrown, a later
\* value-changing write to a signal it read in that run queues a new run.
C17_RecoversAfterThrow ==
    [][\A f \in failed : \A n \in lastReads[f] \cap Signals :
          (last'.op = "send" /\ last'.node = n /\ ~last'.same) =>
              Member(f, microtasks')]_vars

\* C18: calling a cancel handle that has been called before (the handle
\* observe returned, or the handle that reductions or sample associated with
\* its signal, called through cancel) raises no error and changes nothing:
\* no observer Set, no value, no queue, and no constituent of a batch is
\* called again.
C18_CancelIdempotent ==
    [][\A h \in Handles :
          (/\ h \in cancelled
           /\ \/ last'.op = "cancel" /\ last'.node = h
              \/ last'.op = "cancelOwner" /\ cancelSlot[last'.node] = h) =>
              /\ error' = NoError
              /\ UNCHANGED <<value, observers, performThunk, isUpdateScheduled,
                             microtasks, batch, cancelSlot, invocations,
                             cancelled>>]_vars

\* The handle of sample was called a second time, with nothing observing the
\* triggers any more.
C18_Witness ==
    /\ program = "sample"
    /\ last.op = "cancelOwner"
    /\ last.node = "sum"
    /\ last.same
    /\ observers["x"] = <<>>
    /\ observers["y"] = <<>>

\* C19: over any number of calls of the handle batchCancels returned, every
\* constituent cancel has been called exactly once as soon as the handle was
\* called, and not at all before.
C19_BatchRunsEachOnce ==
    program = "sample" =>
        \A sub \in {"sx", "sy"} :
            invocations[sub] = (IF "batch" \in cancelled THEN 1 ELSE 0)

\* The batch handle was called more than once and each constituent ran once.
C19_Witness ==
    /\ last.op = "cancelOwner"
    /\ cancelSlot[last.node] = "batch"
    /\ last.same
    /\ batch = <<>>
    /\ invocations["sx"] = 1
    /\ invocations["sy"] = 1

\* C20: setCancel with something that is not a function throws a TypeError
\* and leaves every association as it was; with a function it associates it
\* with the owner; cancel(owner) calls the associated function, and does
\* nothing at all for an owner without one.
C20_SetCancelAndCancel ==
    [][\A owner \in OSignals :
          /\ (last'.op = "setCancel" /\ last'.node = owner) =>
                IF arg' = NotCallable
                THEN error' = "TypeError" /\ cancelSlot' = cancelSlot
                ELSE /\ error' = NoError
                     /\ cancelSlot' = [cancelSlot EXCEPT ![owner] = arg']
          /\ (last'.op = "cancelOwner" /\ last'.node = owner) =>
                IF cancelSlot[owner] = Null
                THEN error' = NoError /\ UNCHANGED <<observerVars, microtasks>>
                ELSE /\ cancelSlot[owner] \in cancelled'
                     /\ cancelSlot[owner] \in Subscribers =>
                            ~Member(cancelSlot[owner],
                                    observers'[Subject(cancelSlot[owner])])]_vars

\* setCancel was called with something that is not a function while a
\* handle was associated with sig: the association is still there.
C20_Witness ==
    /\ last.op = "setCancel"
    /\ arg = NotCallable
    /\ error = "TypeError"
    /\ cancelSlot["sig"] = "o1"

\* C21: when x and y were both written in one tick, after the flush sum reads
\* resample() of the final values, resample was computed once for the tick
\* (not once per trigger) and the observer of sum was notified no more than
\* once.
C21_SampledOnce ==
    (/\ program = "sample"
     /\ "batch" \notin cancelled
     /\ written = {"x", "y"}
     /\ flushing /\ ~mixed /\ microtasks = <<>>) =>
        /\ value["sum"] = value["x"] + value["y"]
        /\ runs["sx"] + runs["sy"] = 1
        /\ runs["os"] <= 1

\* C22: once the microtask queue has drained, the latest run of every Effect
\* saw the current value of every signal and Computed it read, also when the
\* Effect's perform function itself wrote one of them.
C22_EffectSettled ==
    microtasks = <<>> =>
        \A f \in Live \cap Effects : seen[f] = Value(f, state)

\* C23: once the microtask queue has drained, the value most recently
\* delivered to every still-registered observer is the signal's current
\* value, also when an observer wrote the signal while it was being notified.
C23_ObserversSettled ==
    microtasks = <<>> =>
        \A sub \in Recording :
            Member(sub, observers[Subject(sub)]) =>
                got[sub] = value[Subject(sub)]

\* C24: with ud reached from a along a -> ub -> ud and a -> c1 -> c2 -> ud,
\* after the writes of one tick to a, ud recomputes at most once in the
\* flush, and a recompute of ud never reads ub already updated together with
\* c2 not yet updated (both derive from one value of a: c2 = ub + 1).
C24_GlitchFreeUnevenPaths ==
    program = "uneven" =>
        /\ (~mixed /\ written = {"a"}) => runs["ud"] <= 1
        /\ (last.op = "perform" /\ last.node = "ud") =>
               state["c2"] = state["ub"] + 1

\* C25: every job leaves the tracking stack as it found it, whether the
\* tracked function returned or threw; between jobs, when no tracked function
\* is executing, the stack is empty and a read outside any tracked function
\* registers no listener.
C25_StackBalanced ==
    [][/\ scopes' = scopes
       /\ scopes' = <<>>
       /\ last'.op = "read" => transaction' = transaction]_vars

\* The tracked functions that became listeners of node n in the step.
Registered(n) ==
    {f \in Tracked : Member(f, transaction'[n]) /\ ~Member(f, transaction[n])}

\* C26: a read registers exactly the listener at the top of the tracking
\* stack.  A read outside any tracked function registers the top of the
\* stack as the job found it, and nothing when the stack is empty; a read made
\* by the body of a tracked function registers that function and no enclosing
\* one.
C26_InnermostRegistered ==
    [][\A n \in Readable :
          /\ \A f \in Registered(n) :
                 IF last'.op = "read"
                 THEN last'.node = n /\ f = getTracked(Machine)
                 ELSE f \in ran' /\ n \in lastReads'[f]
          /\ (last'.op = "read" /\ last'.node = n /\ scopes # <<>>) =>
                 Member(getTracked(Machine), transaction'[n])
          /\ \A f \in ran' \cap Tracked :
                 (n \in lastReads'[f] /\ Writes(f, state) = <<>>) =>
                     Member(f, transaction'[n])]_vars

\* C26 witness: the program "nested" created its effect; inner, created and
\* evaluated inside the scope of outer, is the only listener of a, and a read
\* of a outside any tracked function has left it so.
C26_Witness ==
    /\ program = "nested"
    /\ last.op = "read"
    /\ scopes = <<>>
    /\ lastReads["inner"] = {"a"}
    /\ transaction["a"] = <<"inner">>

\* C27: once the computed made by takeValues(a) has observed a returning
\* null, its value is the last non-null value taken and no later change of a
\* changes it, and a recompute made after that leaves it unregistered from a
\* for good.
C27_TakeValuesCompletes ==
    [][isComplete =>
          /\ isComplete'
          /\ taken' = taken
          /\ taken # NullValue
          /\ state["tv"] = taken
          /\ state'["tv"] = state["tv"]
          /\ (last'.op = "perform" /\ last'.node = "tv") =>
                 ~Member("tv", transaction'["a"])
          /\ ~Member("tv", transaction["a"]) =>
                 ~Member("tv", transaction'["a"])]_vars

\* C27 witness: tv completed holding a value other than 0, recomputed once
\* more after a later change of a, and is no longer a listener of a, whose
\* value is now a different non-null one.
C27_Witness ==
    /\ program = "take"
    /\ isComplete
    /\ last.op = "perform" /\ last.node = "tv"
    /\ ~Member("tv", transaction["a"])
    /\ taken # 0
    /\ state["tv"] = taken
    /\ state["a"] \notin {NullValue, taken}
    /\ microtasks = <<>>

====
